---------------------------- MODULE Spec2Model ----------------------------
(***************************************************************************)
(* Model of the Clash ICO on-chain program (program-rust/src).             *)
(*                                                                         *)
(* The ledger is a set of accounts identified by key.  Every account has a *)
(* native balance (lamports); token accounts additionally carry            *)
(* (owner, mint, amount) and the sale-record account carries the           *)
(* ICOProgramData record.  Each of the four instruction handlers is one    *)
(* action; an instruction that returns an error leaves the ledger          *)
(* untouched (the host discards the effects of a failed instruction) and   *)
(* only records its outcome in `last`.                                     *)
(*                                                                         *)
(* f64 arithmetic of the price computation is modelled by exact rational   *)
(* arithmetic, performed in the same sequence of operations as the code.   *)
(***************************************************************************)
EXTENDS Integers, Sequences, FiniteSets, TLC

VARIABLES lamports, token, record, last

vars == <<lamports, token, record, last>>

----------------------------------------------------------------------------
(* Bounds of the model *)

\* offers are multiples of 0.1 SOL, up to this many
MaxOfferUnits == 2
\* payment confirmations are multiples of 20 token units, up to this many
MaxPayUnits == 1
\* the initializer's token account starts with this many lots of 20 tokens
InitialLots == 2

----------------------------------------------------------------------------
(* Identities *)

\* wallets
WalletA == "A"
WalletB == "B"
\* compiled-in configuration identities (crate::config)
CLASH_SOL_WALLET == "W"
CLASH_PAYMENT_AUTHORITY == "P"
CLASH_TOKEN_ID == "X"
\* a second token-asset descriptor, whose minting authority is WalletB
OtherMint == "Y"
\* the executing program and some other program
ProgramId == "PROG"
OtherProgram == "SYS"
\* token accounts
TokenA == "TA"
TokenB == "TB"
Custody == "CUST"
CustodyOther == "CUSTY"
\* an address at which no account exists
NoKey == "NONE"

Wallets == {WalletA, WalletB, CLASH_SOL_WALLET, CLASH_PAYMENT_AUTHORITY}
Mints == {CLASH_TOKEN_ID, OtherMint}
TokenKeys == {TokenA, TokenB, Custody, CustodyOther}

\* Pubkey::find_program_address(&[PROGRAM_PDA_SEED1, PROGRAM_PDA_SEED2], program_id)
ProgramPda == "PDA"

Keys == Wallets \cup Mints \cup TokenKeys \cup {ProgramPda, ProgramId, OtherProgram}

\* address derivation of the associated-token-account program
AssociatedTokenAddress(wallet, mint) ==
    CASE wallet = WalletA /\ mint = CLASH_TOKEN_ID -> TokenA
      [] wallet = WalletB /\ mint = CLASH_TOKEN_ID -> TokenB
      [] wallet = ProgramPda /\ mint = CLASH_TOKEN_ID -> Custody
      [] wallet = ProgramPda /\ mint = OtherMint -> CustodyOther
      [] OTHER -> NoKey

\* spl_token Mint data of the two descriptor accounts
MintData ==
    [m \in Mints |->
        IF m = CLASH_TOKEN_ID
        THEN [mint_authority |-> WalletA, decimals |-> 1]
        ELSE [mint_authority |-> WalletB, decimals |-> 1]]

----------------------------------------------------------------------------
(* Host parameters and configuration *)

LAMPORTS_PER_SOL == 1000000000
\* Rent::minimum_balance(size_of::<ICOProgramData>()) = (128 + 64) * 3480 * 2
RecordRent == 1336320
\* rent-exempt minimum of a 165-byte token account
AtaRent == 2039280

\* crate::config prices, as rationals <<numerator, denominator>>
SOL_USD == <<10, 1>>
CLASH_USD == <<1, 2>>
MIN_USD_PRICE == <<1, 100>>
MAX_USD_PRICE == <<1, 1>>

----------------------------------------------------------------------------
(* Exact rational arithmetic standing for f64 *)

RECURSIVE Gcd(_, _)
Gcd(a, b) == IF b = 0 THEN a ELSE Gcd(b, a % b)

RatNorm(n, d) ==
    IF n = 0 THEN <<0, 1>>
    ELSE LET g == Gcd(n, d) IN <<n \div g, d \div g>>

\* the product is formed after cross-cancellation
RatMul(p, q) ==
    IF p[1] = 0 \/ q[1] = 0 THEN <<0, 1>>
    ELSE LET g1 == Gcd(p[1], q[2])
             g2 == Gcd(q[1], p[2])
         IN  <<(p[1] \div g1) * (q[1] \div g2), (p[2] \div g2) * (q[2] \div g1)>>

RatDiv(p, q) == RatMul(p, <<q[2], q[1]>>)

\* variant: the comparison is not strict
RatLessOrEqual(p, q) ==
    LET g == Gcd(p[2], q[2])
    IN  p[1] * (q[2] \div g) <= q[1] * (p[2] \div g)

RatLess(p, q) ==
    LET g == Gcd(p[2], q[2])
    IN  p[1] * (q[2] \div g) < q[1] * (p[2] \div g)

\* `x as u64` of a non-negative f64
RatFloor(p) == p[1] \div p[2]

RECURSIVE Pow10(_)
Pow10(n) == IF n = 0 THEN 1 ELSE 10 * Pow10(n - 1)


----------------------------------------------------------------------------
(* Ledger state *)

NoToken == [owner |-> NoKey, mint |-> NoKey, amount |-> 0]
NoRecord == [initializer |-> NoKey, initializer_ata |-> NoKey]

\* account data of `k` has the spl_token Account layout
IsTokenAccount(k) == k \in TokenKeys /\ lamports[k] # 0

\* TokenAccount::unpack_unchecked(&acc.data.borrow())
UnpackToken(k) == IF IsTokenAccount(k) THEN token[k] ELSE NoToken

\* account data of `k` has the spl_token Mint layout
IsMintAccount(k) == k \in Mints

\* native balances before the first instruction, the payer holding `b`
InitialLamports(b) ==
    [k \in Keys |->
        CASE k = WalletA -> 10000000
          [] k = WalletB -> b
          [] k \in {CLASH_SOL_WALLET, CLASH_PAYMENT_AUTHORITY} -> 1000000
          [] k \in Mints -> 1461600
          [] k = TokenA -> AtaRent
          [] k \in {ProgramId, OtherProgram} -> 1
          [] OTHER -> 0]

\* token accounts before the first instruction: the initializer's only
InitialTokens ==
    [k \in TokenKeys |->
        IF k = TokenA
        THEN [owner |-> WalletA, mint |-> CLASH_TOKEN_ID, amount |-> 20 * InitialLots]
        ELSE NoToken]

Init ==
    /\ lamports = InitialLamports(301000000)
    /\ token = InitialTokens
    /\ record = NoRecord
    /\ last = [op |-> "None", result |-> "Ok"]

----------------------------------------------------------------------------
(* util.rs *)

\* bit i of the unsigned value x
RECURSIVE Bit(_, _)
Bit(x, i) == IF i = 0 THEN x % 2 ELSE Bit(x \div 2, i - 1)

\* `!x == 0` on a u64: the bitwise complement of x is zero
NotIsZero(x) == \A i \in 0..63 : Bit(x, i) = 1

\* an instruction's account metas: the keys that signed and the keys passed
\* read-only
is_signer(k, meta) == k \in meta.signers
is_writable(k, meta) == k \notin meta.readonly

\* variant: the signer requirement is not enforced
validate_account_nosigner(k, meta, signer, writable, initialized) ==
    IF writable /\ ~is_writable(k, meta) THEN "InvalidArgument"
    ELSE IF initialized /\ NotIsZero(lamports[k]) THEN "UninitializedAccount"
    ELSE "Ok"

validate_account(k, meta, signer, writable, initialized) ==
    IF signer /\ ~is_signer(k, meta) THEN "MissingRequiredSignature"
    ELSE IF writable /\ ~is_writable(k, meta) THEN "InvalidArgument"
    ELSE IF initialized /\ NotIsZero(lamports[k]) THEN "UninitializedAccount"
    ELSE "Ok"

\* variant: the mint is compared before the owner
validate_token_account_mintfirst(acc, owner, mint) ==
    IF acc.mint # mint THEN "InvalidArgument"
    ELSE IF acc.owner # owner THEN "IllegalOwner"
    ELSE "Ok"

validate_token_account(acc, owner, mint) ==
    IF acc.owner # owner THEN "IllegalOwner"
    ELSE IF acc.mint # mint THEN "InvalidArgument"
    ELSE "Ok"

\* the `?` operator: an error returns at once, otherwise the rest is evaluated
Try(r, rest) == IF r # "Ok" THEN r ELSE rest

Check(cond, err) == IF cond THEN err ELSE "Ok"

----------------------------------------------------------------------------
(* Collaborators: system program, token program, associated-token program *)

\* spl_associated_token_account::create_associated_token_account(funder, wallet, mint)
\* invoked with `ata` as the account to create
CreateAtaResult(lam, funder, wallet, mint, ata, meta) ==
    IF ~is_signer(funder, meta) \/ ~is_writable(funder, meta) THEN "PrivilegeEscalation"
    ELSE IF ata # AssociatedTokenAddress(wallet, mint) THEN "AtaProgramError"
    ELSE IF lam[funder] < AtaRent THEN "SystemProgramError"
    ELSE "Ok"

\* spl_token transfer_checked(source, mint, destination, amount)
TransferCheckedResult(tok, lam, source, mint, destination, amount) ==
    IF source \notin TokenKeys \/ destination \notin TokenKeys THEN "TokenProgramError"
    ELSE IF lam[source] = 0 \/ lam[destination] = 0 THEN "TokenProgramError"
    ELSE IF tok[source].mint # mint \/ tok[destination].mint # mint THEN "TokenProgramError"
    ELSE IF tok[source].amount < amount THEN "TokenProgramError"
    ELSE "Ok"

----------------------------------------------------------------------------
(* Processor::initialize_ico *)

\* variant: an existing sale record is not looked for
initialize_checks_noguard(a, meta) ==
    Try(validate_account(a.initializer_account, meta, TRUE, FALSE, TRUE),
        Try(validate_account(a.initializer_token_account, meta, FALSE, FALSE, TRUE),
        Try(validate_account(a.clash_token_account, meta, FALSE, TRUE, TRUE),
        Try(validate_account(a.program_pda_account, meta, FALSE, TRUE, FALSE),
        Try(validate_account(a.program_token_account, meta, FALSE, TRUE, FALSE),
        Try(Check(~IsTokenAccount(a.initializer_token_account), "InvalidAccountData"),
        Try(validate_token_account(UnpackToken(a.initializer_token_account),
                                   a.initializer_account, CLASH_TOKEN_ID),
        Try(Check(a.program_pda_account # ProgramPda, "InvalidAddressProgramPDA"),
        Try(Check(~IsMintAccount(a.clash_token_account), "InvalidAccountData"),
        Check(a.clash_token_account \in Mints
                 /\ MintData[a.clash_token_account].mint_authority # a.initializer_account,
              "InitializerNotMintAuthority"))))))))))

initialize_checks(a, meta) ==
    Try(validate_account(a.initializer_account, meta, TRUE, FALSE, TRUE),
        Try(validate_account(a.initializer_token_account, meta, FALSE, FALSE, TRUE),
        Try(validate_account(a.clash_token_account, meta, FALSE, TRUE, TRUE),
        Try(validate_account(a.program_pda_account, meta, FALSE, TRUE, FALSE),
        Try(validate_account(a.program_token_account, meta, FALSE, TRUE, FALSE),
        Try(Check(~IsTokenAccount(a.initializer_token_account), "InvalidAccountData"),
        Try(validate_token_account(UnpackToken(a.initializer_token_account),
                                   a.initializer_account, CLASH_TOKEN_ID),
        Try(Check(a.program_pda_account # ProgramPda, "InvalidAddressProgramPDA"),
        Try(Check(lamports[a.program_pda_account] # 0, "AlreadyCreatedPDAAccount"),
        Try(Check(~IsMintAccount(a.clash_token_account), "InvalidAccountData"),
        Check(a.clash_token_account \in Mints
                 /\ MintData[a.clash_token_account].mint_authority # a.initializer_account,
              "InitializerNotMintAuthority")))))))))))

\* create_account for the sale record, then the custody account if absent
initialize_cpi(a, meta) ==
    Try(Check(~is_writable(a.initializer_account, meta), "PrivilegeEscalation"),
    Try(Check(lamports[a.initializer_account] < RecordRent, "SystemProgramError"),
        IF lamports[a.program_token_account] = 0
        THEN CreateAtaResult(
                 [lamports EXCEPT ![a.initializer_account] = @ - RecordRent],
                 a.initializer_account, a.program_pda_account,
                 a.clash_token_account, a.program_token_account, meta)
        ELSE "Ok"))

\* variant: the custody account is stored in place of the initializer's
new_record_custody(a) ==
    [initializer |-> a.initializer_account,
     initializer_ata |-> a.program_token_account]

\* ico_data.initializer / ico_data.initializer_ata as persisted
new_record(a) ==
    [initializer |-> a.initializer_account,
     initializer_ata |-> a.initializer_token_account]

initialize_result(a, meta) ==
    LET c == initialize_checks(a, meta)
    IN  IF c # "Ok" THEN c ELSE initialize_cpi(a, meta)

InitializeICO(a, meta) ==
    LET res == initialize_result(a, meta)
        createAta == lamports[a.program_token_account] = 0
    IN  IF res = "Ok"
        THEN /\ lamports' =
                  IF createAta
                  THEN [lamports EXCEPT ![a.initializer_account] = @ - RecordRent - AtaRent,
                                        ![a.program_pda_account] = RecordRent,
                                        ![a.program_token_account] = AtaRent]
                  ELSE [lamports EXCEPT ![a.initializer_account] = @ - RecordRent,
                                        ![a.program_pda_account] = RecordRent]
             /\ token' =
                  IF createAta
                  THEN [token EXCEPT ![a.program_token_account] =
                            [owner |-> a.program_pda_account,
                             mint |-> a.clash_token_account, amount |-> 0]]
                  ELSE token
             /\ record' = new_record(a)
             /\ last' = [op |-> "Initialize", result |-> "Ok", accounts |-> a,
                         meta |-> meta, created |-> createAta]
        ELSE /\ last' = [op |-> "Initialize", result |-> res]
             /\ UNCHANGED <<lamports, token, record>>

----------------------------------------------------------------------------
(* Processor::exchange_clash_token *)

\* lamports_amount as f64 / LAMPORTS_PER_SOL as f64
SolAmount(lamports_amount) == RatNorm(lamports_amount, LAMPORTS_PER_SOL)

UsdAmount(lamports_amount) == RatMul(SolAmount(lamports_amount), SOL_USD)

ClashAmount(lamports_amount) == RatDiv(UsdAmount(lamports_amount), CLASH_USD)

ClashAmountFinal(lamports_amount, clash_decimals) ==
    IF clash_decimals > 0
    THEN RatFloor(RatMul(ClashAmount(lamports_amount), <<Pow10(clash_decimals), 1>>))
    ELSE RatFloor(ClashAmount(lamports_amount))

\* variant: the treasury is compared before the two same-account checks
exchange_validation_treasuryfirst(a, meta) ==
    LET from_associated_token_account == UnpackToken(a.from_token_account)
    IN  Try(validate_account(a.from_sol_account, meta, TRUE, TRUE, TRUE),
        Try(validate_account(a.to_token_account, meta, FALSE, TRUE, FALSE),
        Try(validate_account(a.to_sol_account, meta, FALSE, TRUE, TRUE),
        Try(validate_account(a.from_token_account, meta, FALSE, TRUE, TRUE),
        Try(validate_account(a.clash_token_account, meta, FALSE, FALSE, TRUE),
        Try(Check(a.program_account # ProgramId, "IncorrectProgramId"),
        Try(Check(a.clash_token_account # CLASH_TOKEN_ID, "InvalidClashTokenId"),
        Try(Check(a.to_sol_account # CLASH_SOL_WALLET, "InvalidClashTokenDestinationWallet"),
        Try(Check(a.from_sol_account = a.to_sol_account, "CannotTransferSameAccount"),
        Try(Check(a.from_token_account = a.to_token_account, "CannotTransferSameAssociatedAccount"),
        Try(Check(lamports[a.to_token_account] # 0 /\ ~IsTokenAccount(a.to_token_account),
                  "InvalidAccountData"),
        Try(Check(lamports[a.to_token_account] # 0
                     /\ UnpackToken(a.to_token_account).owner # a.from_sol_account,
                  "InvalidSourceAssociatedAccountOwner"),
        Try(Check(a.program_pda_account # ProgramPda, "InvalidAddressProgramPDA"),
        Try(Check(~IsTokenAccount(a.from_token_account), "InvalidAccountData"),
        Check(from_associated_token_account.owner # ProgramPda,
              "InvalidProgramAssociatedPDAOwner")))))))))))))))

\* the account validation chain, up to the custody account's owner
exchange_validation(a, meta) ==
    LET from_associated_token_account == UnpackToken(a.from_token_account)
    IN  Try(validate_account(a.from_sol_account, meta, TRUE, TRUE, TRUE),
        Try(validate_account(a.to_token_account, meta, FALSE, TRUE, FALSE),
        Try(validate_account(a.to_sol_account, meta, FALSE, TRUE, TRUE),
        Try(validate_account(a.from_token_account, meta, FALSE, TRUE, TRUE),
        Try(validate_account(a.clash_token_account, meta, FALSE, FALSE, TRUE),
        Try(Check(a.program_account # ProgramId, "IncorrectProgramId"),
        Try(Check(a.clash_token_account # CLASH_TOKEN_ID, "InvalidClashTokenId"),
        Try(Check(a.from_sol_account = a.to_sol_account, "CannotTransferSameAccount"),
        Try(Check(a.from_token_account = a.to_token_account, "CannotTransferSameAssociatedAccount"),
        Try(Check(a.to_sol_account # CLASH_SOL_WALLET, "InvalidClashTokenDestinationWallet"),
        Try(Check(lamports[a.to_token_account] # 0 /\ ~IsTokenAccount(a.to_token_account),
                  "InvalidAccountData"),
        Try(Check(lamports[a.to_token_account] # 0
                     /\ UnpackToken(a.to_token_account).owner # a.from_sol_account,
                  "InvalidSourceAssociatedAccountOwner"),
        Try(Check(a.program_pda_account # ProgramPda, "InvalidAddressProgramPDA"),
        Try(Check(~IsTokenAccount(a.from_token_account), "InvalidAccountData"),
        Check(from_associated_token_account.owner # ProgramPda,
              "InvalidProgramAssociatedPDAOwner")))))))))))))))

\* variant: the payer's balance is checked before the token quantity
exchange_checks_fundsfirst(a, meta, lamports_amount) ==
    LET from_associated_token_account == UnpackToken(a.from_token_account)
        clash_decimals == IF a.clash_token_account \in Mints
                          THEN MintData[a.clash_token_account].decimals ELSE 0
        clash_amount_final == ClashAmountFinal(lamports_amount, clash_decimals)
    IN  Try(exchange_validation(a, meta),
        Try(Check(RatLess(UsdAmount(lamports_amount), MIN_USD_PRICE), "InvalidOfferTooFew"),
        Try(Check(RatLess(MAX_USD_PRICE, UsdAmount(lamports_amount)), "InvalidOfferTooMuch"),
        Try(Check(~IsMintAccount(a.clash_token_account), "InvalidAccountData"),
        Try(Check(lamports[a.from_sol_account] <= lamports_amount, "InsufficientFunds"),
        Try(Check(clash_amount_final = 0, "InvalidClashTokenAmount"),
        Check(from_associated_token_account.amount < clash_amount_final,
              "InsuficientClashToken")))))))

\* the validation chain, then the price bounds and the amount checks
exchange_checks(a, meta, lamports_amount) ==
    LET from_associated_token_account == UnpackToken(a.from_token_account)
        clash_decimals == IF a.clash_token_account \in Mints
                          THEN MintData[a.clash_token_account].decimals ELSE 0
        clash_amount_final == ClashAmountFinal(lamports_amount, clash_decimals)
    IN  Try(exchange_validation(a, meta),
        Try(Check(RatLess(UsdAmount(lamports_amount), MIN_USD_PRICE), "InvalidOfferTooFew"),
        Try(Check(RatLess(MAX_USD_PRICE, UsdAmount(lamports_amount)), "InvalidOfferTooMuch"),
        Try(Check(~IsMintAccount(a.clash_token_account), "InvalidAccountData"),
        Try(Check(clash_amount_final = 0, "InvalidClashTokenAmount"),
        Try(Check(lamports[a.from_sol_account] <= lamports_amount, "InsufficientFunds"),
        Check(from_associated_token_account.amount < clash_amount_final,
              "InsuficientClashToken")))))))

\* variant: the new token account is funded by nobody
after_create_ata_unfunded(lam, funder, ata) ==
    [lam EXCEPT ![ata] = AtaRent]

\* ledger balances after the lazy creation of the destination token account
after_create_ata(lam, funder, ata) ==
    [lam EXCEPT ![funder] = @ - AtaRent, ![ata] = AtaRent]

\* the three sub-calls: create the destination account if absent, native
\* transfer, token transfer
exchange_cpi(a, meta, lamports_amount) ==
    LET createAta == lamports[a.to_token_account] = 0
        create == IF createAta
                  THEN CreateAtaResult(lamports, a.from_sol_account, a.from_sol_account,
                                       a.clash_token_account, a.to_token_account, meta)
                  ELSE "Ok"
        lam1 == IF createAta /\ create = "Ok"
                THEN after_create_ata(lamports, a.from_sol_account, a.to_token_account)
                ELSE lamports
        tok1 == IF createAta /\ create = "Ok"
                THEN [token EXCEPT ![a.to_token_account] =
                         [owner |-> a.from_sol_account,
                          mint |-> a.clash_token_account, amount |-> 0]]
                ELSE token
    IN  Try(create,
        Try(Check(lam1[a.from_sol_account] < lamports_amount, "SystemProgramError"),
        TransferCheckedResult(tok1, lam1, a.from_token_account, a.clash_token_account,
                              a.to_token_account,
                              ClashAmountFinal(lamports_amount,
                                               MintData[CLASH_TOKEN_ID].decimals))))

exchange_result(a, meta, lamports_amount) ==
    LET c == exchange_checks(a, meta, lamports_amount)
    IN  IF c # "Ok" THEN c ELSE exchange_cpi(a, meta, lamports_amount)

\* variant: the treasury is credited, the payer is not debited
exchange_lamports_nodebit(a, lamports_amount) ==
    LET lam1 == IF lamports[a.to_token_account] = 0
                THEN after_create_ata(lamports, a.from_sol_account, a.to_token_account)
                ELSE lamports
    IN  [lam1 EXCEPT ![a.to_sol_account] = @ + lamports_amount]

\* native balances after a successful exchange
exchange_lamports(a, lamports_amount) ==
    LET lam1 == IF lamports[a.to_token_account] = 0
                THEN after_create_ata(lamports, a.from_sol_account, a.to_token_account)
                ELSE lamports
    IN  [lam1 EXCEPT ![a.from_sol_account] = @ - lamports_amount,
                     ![a.to_sol_account] = @ + lamports_amount]

\* variant: the destination is credited, the source is not debited
transfer_tokens_nodebit(source, destination, owner, mint, amount) ==
    LET dst == IF lamports[destination] = 0
               THEN [owner |-> owner, mint |-> mint, amount |-> 0]
               ELSE token[destination]
    IN  [token EXCEPT ![destination] = [dst EXCEPT !.amount = @ + amount]]

\* token accounts after a transfer of `amount` from `source` to `destination`,
\* the destination being created for `owner` when it was absent
transfer_tokens(source, destination, owner, mint, amount) ==
    LET dst == IF lamports[destination] = 0
               THEN [owner |-> owner, mint |-> mint, amount |-> 0]
               ELSE token[destination]
    IN  [token EXCEPT ![source] = [@ EXCEPT !.amount = @ - amount],
                      ![destination] = [dst EXCEPT !.amount = @ + amount]]

ExchangeClashToken(a, meta, lamports_amount) ==
    LET res == exchange_result(a, meta, lamports_amount)
        clash_amount_final == ClashAmountFinal(lamports_amount,
                                               MintData[CLASH_TOKEN_ID].decimals)
    IN  IF res = "Ok"
        THEN /\ lamports' = exchange_lamports(a, lamports_amount)
             /\ token' = transfer_tokens(a.from_token_account, a.to_token_account,
                                         a.from_sol_account, a.clash_token_account,
                                         clash_amount_final)
             /\ last' = [op |-> "Exchange", result |-> "Ok", accounts |-> a,
                         meta |-> meta, amount |-> lamports_amount,
                         created |-> (lamports[a.to_token_account] = 0)]
             /\ UNCHANGED record
        ELSE /\ last' = [op |-> "Exchange", result |-> res]
             /\ UNCHANGED <<lamports, token, record>>

----------------------------------------------------------------------------
(* Processor::execute_clash_payment *)

\* variant: the derived address is compared before the trusted signer
payment_validation_pdafirst(a, meta) ==
    LET program_associated_token_account == UnpackToken(a.program_token_account)
    IN  Try(validate_account(a.payer_account, meta, FALSE, FALSE, TRUE),
        Try(validate_account(a.payer_token_account, meta, FALSE, TRUE, FALSE),
        Try(validate_account(a.clash_token_account, meta, FALSE, FALSE, TRUE),
        Try(validate_account(a.trusted_signer_authority, meta, TRUE, FALSE, TRUE),
        Try(validate_account(a.program_token_account, meta, FALSE, TRUE, TRUE),
        Try(Check(a.program_account # ProgramId, "IncorrectProgramId"),
        Try(Check(a.clash_token_account # CLASH_TOKEN_ID, "InvalidClashTokenId"),
        Try(Check(a.payer_token_account = a.program_token_account,
                  "CannotTransferSameAssociatedAccount"),
        Try(Check(a.program_pda_account # ProgramPda, "InvalidAddressProgramPDA"),
        Try(Check(a.trusted_signer_authority # CLASH_PAYMENT_AUTHORITY,
                  "InvalidClashTrustedAuthority"),
        Try(Check(lamports[a.payer_token_account] # 0 /\ ~IsTokenAccount(a.payer_token_account),
                  "InvalidAccountData"),
        Try(Check(lamports[a.payer_token_account] # 0
                     /\ UnpackToken(a.payer_token_account).owner # a.payer_account,
                  "InvalidClashTokenDestinationWallet"),
        Try(Check(~IsTokenAccount(a.program_token_account), "InvalidAccountData"),
        Check(program_associated_token_account.owner # ProgramPda,
              "InvalidProgramAssociatedPDAOwner"))))))))))))))

\* the account validation chain, up to the custody account's owner
payment_validation(a, meta) ==
    LET program_associated_token_account == UnpackToken(a.program_token_account)
    IN  Try(validate_account(a.payer_account, meta, FALSE, FALSE, TRUE),
        Try(validate_account(a.payer_token_account, meta, FALSE, TRUE, FALSE),
        Try(validate_account(a.clash_token_account, meta, FALSE, FALSE, TRUE),
        Try(validate_account(a.trusted_signer_authority, meta, TRUE, FALSE, TRUE),
        Try(validate_account(a.program_token_account, meta, FALSE, TRUE, TRUE),
        Try(Check(a.program_account # ProgramId, "IncorrectProgramId"),
        Try(Check(a.clash_token_account # CLASH_TOKEN_ID, "InvalidClashTokenId"),
        Try(Check(a.payer_token_account = a.program_token_account,
                  "CannotTransferSameAssociatedAccount"),
        Try(Check(a.trusted_signer_authority # CLASH_PAYMENT_AUTHORITY,
                  "InvalidClashTrustedAuthority"),
        Try(Check(lamports[a.payer_token_account] # 0 /\ ~IsTokenAccount(a.payer_token_account),
                  "InvalidAccountData"),
        Try(Check(lamports[a.payer_token_account] # 0
                     /\ UnpackToken(a.payer_token_account).owner # a.payer_account,
                  "InvalidClashTokenDestinationWallet"),
        Try(Check(a.program_pda_account # ProgramPda, "InvalidAddressProgramPDA"),
        Try(Check(~IsTokenAccount(a.program_token_account), "InvalidAccountData"),
        Check(program_associated_token_account.owner # ProgramPda,
              "InvalidProgramAssociatedPDAOwner"))))))))))))))

\* variant: a zero amount is not rejected
payment_checks_nozero(a, meta, clash_token_amount) ==
    LET program_associated_token_account == UnpackToken(a.program_token_account)
    IN  Try(payment_validation(a, meta),
        Check(program_associated_token_account.amount < clash_token_amount,
              "InsuficientClashToken"))

\* the validation chain, then the amount checks
payment_checks(a, meta, clash_token_amount) ==
    LET program_associated_token_account == UnpackToken(a.program_token_account)
    IN  Try(payment_validation(a, meta),
        Try(Check(clash_token_amount = 0, "InvalidClashTokenAmount"),
        Check(program_associated_token_account.amount < clash_token_amount,
              "InsuficientClashToken")))

\* the two sub-calls: create the payer's token account if absent, token transfer
payment_cpi(a, meta, clash_token_amount) ==
    LET createAta == lamports[a.payer_token_account] = 0
        create == IF createAta
                  THEN CreateAtaResult(lamports, a.payer_account, a.payer_account,
                                       a.clash_token_account, a.payer_token_account, meta)
                  ELSE "Ok"
        lam1 == IF createAta /\ create = "Ok"
                THEN after_create_ata(lamports, a.payer_account, a.payer_token_account)
                ELSE lamports
        tok1 == IF createAta /\ create = "Ok"
                THEN [token EXCEPT ![a.payer_token_account] =
                         [owner |-> a.payer_account,
                          mint |-> a.clash_token_account, amount |-> 0]]
                ELSE token
    IN  Try(create,
        TransferCheckedResult(tok1, lam1, a.program_token_account, a.clash_token_account,
                              a.payer_token_account, clash_token_amount))

payment_result(a, meta, clash_token_amount) ==
    LET c == payment_checks(a, meta, clash_token_amount)
    IN  IF c # "Ok" THEN c ELSE payment_cpi(a, meta, clash_token_amount)

ExecuteClashPayment(a, meta, clash_token_amount) ==
    LET res == payment_result(a, meta, clash_token_amount)
    IN  IF res = "Ok"
        THEN /\ lamports' =
                  IF lamports[a.payer_token_account] = 0
                  THEN after_create_ata(lamports, a.payer_account, a.payer_token_account)
                  ELSE lamports
             /\ token' = transfer_tokens(a.program_token_account, a.payer_token_account,
                                         a.payer_account, a.clash_token_account,
                                         clash_token_amount)
             /\ last' = [op |-> "ExecutePayment", result |-> "Ok", accounts |-> a,
                         meta |-> meta, amount |-> clash_token_amount,
                         created |-> (lamports[a.payer_token_account] = 0)]
             /\ UNCHANGED record
        ELSE /\ last' = [op |-> "ExecutePayment", result |-> res]
             /\ UNCHANGED <<lamports, token, record>>

----------------------------------------------------------------------------
(* Processor::terminate_ico *)

\* variant: the caller is not compared with the stored initializer
terminate_checks_anyone(a, meta) ==
    Try(validate_account(a.initializer_account, meta, TRUE, FALSE, TRUE),
        Try(validate_account(a.initializer_token_account, meta, FALSE, FALSE, TRUE),
        Try(validate_account(a.clash_token_account, meta, FALSE, TRUE, TRUE),
        Try(validate_account(a.program_pda_account, meta, FALSE, TRUE, FALSE),
        Try(validate_account(a.program_token_account, meta, FALSE, TRUE, FALSE),
        Try(Check(a.clash_token_account # CLASH_TOKEN_ID, "InvalidClashTokenId"),
        Try(Check(a.program_pda_account # ProgramPda, "InvalidAddressProgramPDA"),
        Try(Check(lamports[a.program_pda_account] = 0, "InvalidTerminateUninitializedICO"),
        Try(Check(record.initializer_ata # a.initializer_token_account,
                  "InitializerAssociatedAccountMismatch"),
        Try(Check(~IsMintAccount(a.clash_token_account), "InvalidAccountData"),
        Try(Check(lamports[a.program_token_account] # 0 /\ ~IsTokenAccount(a.program_token_account),
                  "InvalidAccountData"),
        IF lamports[a.program_token_account] # 0
        THEN validate_token_account(UnpackToken(a.program_token_account),
                                    a.program_pda_account, CLASH_TOKEN_ID)
        ELSE "Ok")))))))))))

\* variant: the balance of the sale record is not looked at
terminate_checks_unfunded(a, meta) ==
    Try(validate_account(a.initializer_account, meta, TRUE, FALSE, TRUE),
        Try(validate_account(a.initializer_token_account, meta, FALSE, FALSE, TRUE),
        Try(validate_account(a.clash_token_account, meta, FALSE, TRUE, TRUE),
        Try(validate_account(a.program_pda_account, meta, FALSE, TRUE, FALSE),
        Try(validate_account(a.program_token_account, meta, FALSE, TRUE, FALSE),
        Try(Check(a.clash_token_account # CLASH_TOKEN_ID, "InvalidClashTokenId"),
        Try(Check(a.program_pda_account # ProgramPda, "InvalidAddressProgramPDA"),
        Try(Check(record.initializer # a.initializer_account, "InitializerAccountMismatch"),
        Try(Check(record.initializer_ata # a.initializer_token_account,
                  "InitializerAssociatedAccountMismatch"),
        Try(Check(~IsMintAccount(a.clash_token_account), "InvalidAccountData"),
        Try(Check(lamports[a.program_token_account] # 0 /\ ~IsTokenAccount(a.program_token_account),
                  "InvalidAccountData"),
        IF lamports[a.program_token_account] # 0
        THEN validate_token_account(UnpackToken(a.program_token_account),
                                    a.program_pda_account, CLASH_TOKEN_ID)
        ELSE "Ok")))))))))))

terminate_checks(a, meta) ==
    Try(validate_account(a.initializer_account, meta, TRUE, FALSE, TRUE),
        Try(validate_account(a.initializer_token_account, meta, FALSE, FALSE, TRUE),
        Try(validate_account(a.clash_token_account, meta, FALSE, TRUE, TRUE),
        Try(validate_account(a.program_pda_account, meta, FALSE, TRUE, FALSE),
        Try(validate_account(a.program_token_account, meta, FALSE, TRUE, FALSE),
        Try(Check(a.clash_token_account # CLASH_TOKEN_ID, "InvalidClashTokenId"),
        Try(Check(a.program_pda_account # ProgramPda, "InvalidAddressProgramPDA"),
        Try(Check(lamports[a.program_pda_account] = 0, "InvalidTerminateUninitializedICO"),
        Try(Check(record.initializer # a.initializer_account, "InitializerAccountMismatch"),
        Try(Check(record.initializer_ata # a.initializer_token_account,
                  "InitializerAssociatedAccountMismatch"),
        Try(Check(~IsMintAccount(a.clash_token_account), "InvalidAccountData"),
        Try(Check(lamports[a.program_token_account] # 0 /\ ~IsTokenAccount(a.program_token_account),
                  "InvalidAccountData"),
        IF lamports[a.program_token_account] # 0
        THEN validate_token_account(UnpackToken(a.program_token_account),
                                    a.program_pda_account, CLASH_TOKEN_ID)
        ELSE "Ok"))))))))))))

\* the sub-calls on a funded custody account: sweep the remaining tokens,
\* then close the account; the initializer's balance is then written directly
terminate_cpi(a, meta) ==
    LET amount_clash == UnpackToken(a.program_token_account).amount
    IN  Try(IF lamports[a.program_token_account] # 0 /\ amount_clash > 0
            THEN TransferCheckedResult(token, lamports, a.program_token_account,
                                       a.clash_token_account, a.initializer_token_account,
                                       amount_clash)
            ELSE "Ok",
        Check(~is_writable(a.initializer_account, meta), "ReadonlyLamportChange"))

terminate_result(a, meta) ==
    LET c == terminate_checks(a, meta)
    IN  IF c # "Ok" THEN c ELSE terminate_cpi(a, meta)

\* token accounts after the sweep and the close of the custody account
terminate_tokens(a) ==
    LET amount_clash == token[a.program_token_account].amount
    IN  [token EXCEPT ![a.initializer_token_account] =
                          [@ EXCEPT !.amount = @ + amount_clash],
                      ![a.program_token_account] = NoToken]

\* variant: the record's lamports are credited but never debited
terminate_lamports_keep(a) ==
    [lamports EXCEPT ![a.initializer_account] = @ + lamports[a.program_pda_account]]

\* native balances after the close of the custody account and of the record
terminate_lamports(a) ==
    LET closeAta == lamports[a.program_token_account] # 0
        lam1 == IF closeAta
                THEN [lamports EXCEPT
                         ![a.initializer_account] = @ + lamports[a.program_token_account],
                         ![a.program_token_account] = 0]
                ELSE lamports
        lamports_amount == lam1[a.program_pda_account]
    IN  [lam1 EXCEPT ![a.program_pda_account] = @ - lamports_amount,
                     ![a.initializer_account] = @ + lamports_amount]

TerminateICO(a, meta) ==
    LET res == terminate_result(a, meta)
        closeAta == lamports[a.program_token_account] # 0
    IN  IF res = "Ok"
        THEN /\ lamports' = terminate_lamports(a)
             /\ token' = IF closeAta THEN terminate_tokens(a) ELSE token
             /\ record' = NoRecord
             /\ last' = [op |-> "Terminate", result |-> "Ok", accounts |-> a,
                         meta |-> meta, created |-> FALSE]
        ELSE /\ last' = [op |-> "Terminate", result |-> res]
             /\ UNCHANGED <<lamports, token, record>>

----------------------------------------------------------------------------
(* The ledger and token sub-ledger effects a handler issues, in order.  A   *)
(* handler issues none before its checks have all passed.                   *)

Issue(cond, call) == IF cond THEN <<call>> ELSE <<>>

initialize_issued(a, meta) ==
    IF initialize_checks(a, meta) # "Ok" THEN <<>>
    ELSE <<"create_account">>
         \o Issue(lamports[a.program_token_account] = 0, "create_associated_token_account")
         \o <<"write_record">>

\* variant: the destination account is created before the price and amount
\* checks
exchange_issued_early(a, meta, lamports_amount) ==
    IF exchange_validation(a, meta) # "Ok" THEN <<>>
    ELSE Issue(lamports[a.to_token_account] = 0, "create_associated_token_account")
         \o (IF exchange_checks(a, meta, lamports_amount) # "Ok" THEN <<>>
             ELSE <<"transfer", "transfer_checked">>)

exchange_issued(a, meta, lamports_amount) ==
    IF exchange_checks(a, meta, lamports_amount) # "Ok" THEN <<>>
    ELSE Issue(lamports[a.to_token_account] = 0, "create_associated_token_account")
         \o <<"transfer", "transfer_checked">>

payment_issued(a, meta, clash_token_amount) ==
    IF payment_checks(a, meta, clash_token_amount) # "Ok" THEN <<>>
    ELSE Issue(lamports[a.payer_token_account] = 0, "create_associated_token_account")
         \o <<"transfer_checked">>

terminate_issued(a, meta) ==
    IF terminate_checks(a, meta) # "Ok" THEN <<>>
    ELSE Issue(lamports[a.program_token_account] # 0
                  /\ UnpackToken(a.program_token_account).amount > 0, "transfer_checked")
         \o Issue(lamports[a.program_token_account] # 0, "close_account")
         \o <<"lamports">>

----------------------------------------------------------------------------
(* Token sub-ledger: the holder of the initializer's token account moves one *)
(* lot of tokens into the custody account                                    *)

Deposit ==
    /\ lamports[Custody] # 0
    /\ token[Custody].mint = CLASH_TOKEN_ID
    /\ token[TokenA].amount >= 20
    /\ token' = [token EXCEPT ![TokenA] = [@ EXCEPT !.amount = @ - 20],
                              ![Custody] = [@ EXCEPT !.amount = @ + 20]]
    /\ last' = [op |-> "Deposit", result |-> "Ok"]
    /\ UNCHANGED <<lamports, record>>

----------------------------------------------------------------------------
(* Instructions submitted to the program *)

\* the account list of Initialize / Terminate for initializer `w`
SaleAccounts(w) ==
    [initializer_account |-> w,
     initializer_token_account |-> AssociatedTokenAddress(w, CLASH_TOKEN_ID),
     clash_token_account |-> CLASH_TOKEN_ID,
     program_pda_account |-> ProgramPda,
     program_token_account |-> Custody]

SignedBy(ks) == [signers |-> ks, readonly |-> {}]

\* the accounts of a list and one list per substitution of a single account
OneOff(canon, alts) ==
    {canon} \cup {[canon EXCEPT ![fv[1]] = fv[2]] : fv \in alts}

Metas(signerKeys, readonlyKeys) ==
    {[signers |-> s, readonly |-> r] :
        s \in SUBSET signerKeys, r \in {{}} \cup {{k} : k \in readonlyKeys}}

InitializeAccounts ==
    [initializer_account : {WalletA, WalletB},
     initializer_token_account : {TokenA, TokenB},
     clash_token_account : Mints,
     program_pda_account : {ProgramPda},
     program_token_account : {Custody, CustodyOther}]
    \cup {[SaleAccounts(w) EXCEPT !.program_pda_account = OtherProgram] :
             w \in {WalletA, WalletB}}

InitializeMetas(a) ==
    Metas({a.initializer_account},
          {a.clash_token_account})

ExchangeAccounts ==
    UNION {OneOff(
              [from_sol_account |-> payer,
               to_token_account |-> AssociatedTokenAddress(payer, CLASH_TOKEN_ID),
               to_sol_account |-> CLASH_SOL_WALLET,
               from_token_account |-> Custody,
               clash_token_account |-> CLASH_TOKEN_ID,
               program_account |-> ProgramId,
               program_pda_account |-> ProgramPda],
              {<<"from_sol_account", CLASH_SOL_WALLET>>,
               <<"to_token_account", TokenA>>,
               <<"to_token_account", TokenB>>,
               <<"to_token_account", Custody>>,
               <<"to_sol_account", WalletA>>,
               <<"from_token_account", TokenA>>,
               <<"from_token_account", CustodyOther>>,
               <<"clash_token_account", OtherMint>>,
               <<"program_account", OtherProgram>>,
               <<"program_pda_account", WalletB>>}) : payer \in {WalletB}}

ExchangeMetas(a) == Metas({a.from_sol_account}, {a.to_token_account})

Offers == {k * 100000000 : k \in 0..MaxOfferUnits} \cup {1000000}

PaymentAccounts ==
    UNION {OneOff(
              [payer_account |-> payer,
               payer_token_account |-> AssociatedTokenAddress(payer, CLASH_TOKEN_ID),
               clash_token_account |-> CLASH_TOKEN_ID,
               trusted_signer_authority |-> CLASH_PAYMENT_AUTHORITY,
               program_token_account |-> Custody,
               program_account |-> ProgramId,
               program_pda_account |-> ProgramPda],
              {<<"payer_token_account", TokenA>>,
               <<"payer_token_account", TokenB>>,
               <<"payer_token_account", Custody>>,
               <<"clash_token_account", OtherMint>>,
               <<"trusted_signer_authority", WalletB>>,
               <<"program_token_account", TokenA>>,
               <<"program_token_account", CustodyOther>>,
               <<"program_account", OtherProgram>>,
               <<"program_pda_account", WalletB>>}) : payer \in {WalletB}}

PaymentMetas(a) ==
    Metas({a.payer_account, a.trusted_signer_authority}, {a.payer_token_account})

PayAmounts == {k * 20 : k \in 0..MaxPayUnits}

TerminateAccounts ==
    [initializer_account : {WalletA, WalletB},
     initializer_token_account : {TokenA, TokenB},
     clash_token_account : Mints,
     program_pda_account : {ProgramPda},
     program_token_account : {Custody, CustodyOther, TokenB}]
    \cup {[SaleAccounts(w) EXCEPT !.program_pda_account = OtherProgram] :
             w \in {WalletA, WalletB}}

TerminateMetas(a) ==
    Metas({a.initializer_account}, {a.program_pda_account})

Initialize == \E a \in InitializeAccounts : \E m \in InitializeMetas(a) : InitializeICO(a, m)

Exchange ==
    \E a \in ExchangeAccounts : \E m \in ExchangeMetas(a) : \E n \in Offers :
        ExchangeClashToken(a, m, n)

ExecutePayment ==
    \E a \in PaymentAccounts : \E m \in PaymentMetas(a) : \E n \in PayAmounts :
        ExecuteClashPayment(a, m, n)

Terminate == \E a \in TerminateAccounts : \E m \in TerminateMetas(a) : TerminateICO(a, m)

Next == Initialize \/ Exchange \/ ExecutePayment \/ Terminate \/ Deposit

Spec == Init /\ [][Next]_vars

----------------------------------------------------------------------------
(* instruction.rs, state.rs: instruction data *)

\* A u64 is held as four 16-bit limbs, least significant first; a byte
\* sequence is a sequence of values in 0..255.

\* variant: the payload is read most significant byte first
from_be_bytes(b) ==
    <<b[8] + 256 * b[7], b[6] + 256 * b[5], b[4] + 256 * b[3], b[2] + 256 * b[1]>>

\* u64::to_le_bytes, the borsh encoding of a u64 field
to_le_bytes(v) ==
    <<v[1] % 256, v[1] \div 256, v[2] % 256, v[2] \div 256,
      v[3] % 256, v[3] \div 256, v[4] % 256, v[4] \div 256>>

\* u64::from_le_bytes, the borsh decoding of a u64 field
from_le_bytes(b) ==
    <<b[1] + 256 * b[2], b[3] + 256 * b[4], b[5] + 256 * b[6], b[7] + 256 * b[8]>>

\* the u64 of a number the model computes with, and back
U64OfInt(n) == <<n % 65536, n \div 65536, 0, 0>>
IntOfU64(v) == v[1] + 65536 * v[2]

ZeroU64 == <<0, 0, 0, 0>>

\* variant: bytes after the eighth are ignored
try_from_slice_prefix(payload) ==
    IF Len(payload) < 8
    THEN [result |-> "BorshIoError", value |-> ZeroU64]
    ELSE [result |-> "Ok", value |-> from_le_bytes(SubSeq(payload, 1, 8))]

\* ClashTokenExchangeData::try_from_slice / ClashTokenPaymentData::try_from_slice:
\* one u64 field, all bytes of the slice must be consumed
try_from_slice(payload) ==
    IF Len(payload) # 8
    THEN [result |-> "BorshIoError", value |-> ZeroU64]
    ELSE [result |-> "Ok", value |-> from_le_bytes(payload)]

Decoded(instruction, amount) ==
    [result |-> "Ok", instruction |-> instruction, amount |-> amount]
DecodeError(err) ==
    [result |-> err, instruction |-> "None", amount |-> ZeroU64]

\* variant: an unknown tag is taken for TerminateICO
unpack_lenient(input_data) ==
    IF Len(input_data) = 0 THEN DecodeError("InvalidInstructionDataEmpty")
    ELSE LET instruction_type == Head(input_data)
             data == try_from_slice(Tail(input_data))
         IN  CASE instruction_type = 0 -> Decoded("InitializeICO", ZeroU64)
               [] instruction_type = 1 ->
                    IF data.result # "Ok" THEN DecodeError(data.result)
                    ELSE Decoded("ExchangeClashToken", data.value)
               [] instruction_type = 2 ->
                    IF data.result # "Ok" THEN DecodeError(data.result)
                    ELSE Decoded("ExecuteClashPayment", data.value)
               [] OTHER -> Decoded("TerminateICO", ZeroU64)

\* ProgramInstruction::unpack
unpack(input_data) ==
    IF Len(input_data) = 0 THEN DecodeError("InvalidInstructionDataEmpty")
    ELSE LET instruction_type == Head(input_data)
             data == try_from_slice(Tail(input_data))
         IN  CASE instruction_type = 0 -> Decoded("InitializeICO", ZeroU64)
               [] instruction_type = 1 ->
                    IF data.result # "Ok" THEN DecodeError(data.result)
                    ELSE Decoded("ExchangeClashToken", data.value)
               [] instruction_type = 2 ->
                    IF data.result # "Ok" THEN DecodeError(data.result)
                    ELSE Decoded("ExecuteClashPayment", data.value)
               [] instruction_type = 3 -> Decoded("TerminateICO", ZeroU64)
               [] OTHER -> DecodeError("InvalidProgramInstruction")

----------------------------------------------------------------------------
(* Processor::process: decode the instruction data, then dispatch *)

\* longest tail of sample bytes appended to a tag
MaxTailLen == 2

ByteSamples == {0, 1, 3, 255}

Tails == UNION {[1..n -> ByteSamples] : n \in 0..MaxTailLen}

\* u64 values: every combination of limbs 0, 1, 255, 256 and 65535, which
\* includes 0 and the maximum
LimbSamples == {0, 1, 255, 256, 65535}
U64Samples == {<<a, b, c, d>> : a \in LimbSamples, b \in LimbSamples,
                                c \in LimbSamples, d \in LimbSamples}

\* the account list of Exchange for `payer`, and that of ExecutePayment
ExchangeList(payer) ==
    [from_sol_account |-> payer,
     to_token_account |-> AssociatedTokenAddress(payer, CLASH_TOKEN_ID),
     to_sol_account |-> CLASH_SOL_WALLET,
     from_token_account |-> Custody,
     clash_token_account |-> CLASH_TOKEN_ID,
     program_account |-> ProgramId,
     program_pda_account |-> ProgramPda]

PaymentList(payer) ==
    [payer_account |-> payer,
     payer_token_account |-> AssociatedTokenAddress(payer, CLASH_TOKEN_ID),
     clash_token_account |-> CLASH_TOKEN_ID,
     trusted_signer_authority |-> CLASH_PAYMENT_AUTHORITY,
     program_token_account |-> Custody,
     program_account |-> ProgramId,
     program_pda_account |-> ProgramPda]

\* instruction data that does not decode: empty, or an unknown tag followed
\* by any tail
UndecodableData ==
    {<<>>} \cup {<<t>> \o tail : t \in {4, 128, 255}, tail \in Tails}

\* instruction data, account list and account flags submitted together
ProcessInputs ==
    {<<d, SaleAccounts(WalletA), SignedBy({WalletA})>> : d \in UndecodableData}
    \cup {<<d, SaleAccounts(w), SignedBy(sg)>> :
             d \in {<<0>>, <<3>>, <<0, 7>>, <<3, 255>>},
             w \in {WalletA, WalletB}, sg \in {{WalletA}, {WalletB}}}
    \cup {<<d, ExchangeList(WalletB), SignedBy(sg)>> :
             d \in {<<>>, <<4>>, <<1>>, <<1, 0>>}
                   \cup {<<1>> \o to_le_bytes(U64OfInt(n)) : n \in Offers},
             sg \in {{WalletB}, {}}}
    \cup {<<d, PaymentList(WalletB), SignedBy(sg)>> :
             d \in {<<>>, <<255, 2>>, <<2>>, <<2, 20, 0>>}
                   \cup {<<2>> \o to_le_bytes(U64OfInt(n)) : n \in PayAmounts},
             sg \in {{WalletB, CLASH_PAYMENT_AUTHORITY}, {CLASH_PAYMENT_AUTHORITY}, {WalletB}}}

\* Processor::process(program_id, accounts, instruction_data)
Process(instruction_data, accounts, meta) ==
    LET instruction == unpack(instruction_data)
    IN  IF instruction.result # "Ok"
        THEN /\ last' = [op |-> "Process", result |-> instruction.result]
             /\ UNCHANGED <<lamports, token, record>>
        ELSE CASE instruction.instruction = "InitializeICO" ->
                    InitializeICO(accounts, meta)
               [] instruction.instruction = "ExchangeClashToken" ->
                    ExchangeClashToken(accounts, meta, IntOfU64(instruction.amount))
               [] instruction.instruction = "ExecuteClashPayment" ->
                    ExecuteClashPayment(accounts, meta, IntOfU64(instruction.amount))
               [] instruction.instruction = "TerminateICO" ->
                    TerminateICO(accounts, meta)

ProcessInstruction == \E i \in ProcessInputs : Process(i[1], i[2], i[3])

ProcessNext == ProcessInstruction \/ Deposit

ProcessSpec == Init /\ [][ProcessNext]_vars

----------------------------------------------------------------------------
(* ProgramInstruction::unpack applied to instruction data of every shape *)

DecodeInputs ==
    {<<>>}
    \cup {<<t>> \o tail : t \in {0, 1, 2, 3, 4, 5, 128, 255}, tail \in Tails}
    \cup {<<t>> \o to_le_bytes(v) : t \in {0, 1, 2, 3, 4}, v \in U64Samples}
    \cup {<<t>> \o to_le_bytes(v) \o <<b>> : t \in {1, 2}, v \in {ZeroU64}, b \in ByteSamples}
    \cup {<<t>> \o SubSeq(to_le_bytes(v), 1, 7) : t \in {1, 2}, v \in {ZeroU64}}

Unpack ==
    \E d \in DecodeInputs :
        /\ last' = [op |-> "Unpack", result |-> unpack(d).result,
                    data |-> d, decoded |-> unpack(d)]
        /\ UNCHANGED <<lamports, token, record>>

DecodeNext == Unpack

DecodeSpec == Init /\ [][DecodeNext]_vars

----------------------------------------------------------------------------
(* util.rs: the two validators applied to accounts of every shape *)

ValidateAccount ==
    \E k \in Keys : \E sg \in BOOLEAN, wr \in BOOLEAN :
    \E signer \in BOOLEAN, writable \in BOOLEAN, initialized \in BOOLEAN :
        LET meta == [signers |-> IF sg THEN {k} ELSE {},
                     readonly |-> IF wr THEN {} ELSE {k}]
        IN  /\ last' = [op |-> "validate_account",
                        result |-> validate_account(k, meta, signer, writable, initialized),
                        key |-> k, meta |-> meta, signer |-> signer,
                        writable |-> writable, initialized |-> initialized]
            /\ UNCHANGED <<lamports, token, record>>

TokenAccountSamples ==
    [owner : {WalletA, WalletB, ProgramPda}, mint : Mints, amount : {0, 20}]

ValidateTokenAccount ==
    \E acc \in TokenAccountSamples :
    \E owner \in {WalletA, WalletB, ProgramPda} : \E mint \in Mints :
        /\ last' = [op |-> "validate_token_account",
                    result |-> validate_token_account(acc, owner, mint),
                    acc |-> acc, owner |-> owner, mint |-> mint]
        /\ UNCHANGED <<lamports, token, record>>

UtilNext == ValidateAccount \/ ValidateTokenAccount

UtilSpec == Init /\ [][UtilNext]_vars

----------------------------------------------------------------------------
(* Exchange and ExecutePayment on account lists that may break several      *)
(* checks at once, during one sale                                          *)

ExchangeWide ==
    [from_sol_account : {WalletA, WalletB, CLASH_SOL_WALLET, CLASH_PAYMENT_AUTHORITY},
     to_token_account : {TokenA, TokenB, Custody},
     to_sol_account : {CLASH_SOL_WALLET, WalletA, WalletB},
     from_token_account : {Custody, TokenA, TokenB},
     clash_token_account : Mints,
     program_account : {ProgramId, OtherProgram},
     program_pda_account : {ProgramPda, WalletB}]

\* offers below the floor, at the floor (no whole token), in range, and above
\* the ceiling
OrderOffers == {999999, 1000000, 100000000, 100000001}

PaymentWide ==
    [payer_account : {WalletA, WalletB},
     payer_token_account : {TokenA, TokenB, Custody},
     clash_token_account : Mints,
     trusted_signer_authority : {CLASH_PAYMENT_AUTHORITY, WalletB},
     program_token_account : {Custody, TokenA},
     program_account : {ProgramId, OtherProgram},
     program_pda_account : {ProgramPda, WalletB}]

OrderPayAmounts == {0, 20, 60}

OrderInitialize == InitializeICO(SaleAccounts(WalletA), SignedBy({WalletA}))

OrderExchange ==
    \E a \in ExchangeWide : \E m \in ExchangeMetas(a) : \E n \in OrderOffers :
        ExchangeClashToken(a, m, n)

OrderPayment ==
    \E a \in PaymentWide : \E m \in PaymentMetas(a) : \E n \in OrderPayAmounts :
        ExecuteClashPayment(a, m, n)

OrderNext == OrderInitialize \/ Deposit \/ OrderExchange \/ OrderPayment

OrderSpec == Init /\ [][OrderNext]_vars

----------------------------------------------------------------------------
(* A sale whose payer starts with a balance close to the offer *)

\* the offer, the offer plus one, the offer plus the token account's rent,
\* that plus one, and a comfortable balance
PayerBalances ==
    {100000000, 100000001, 100000000 + AtaRent, 100000001 + AtaRent, 301000000}

FundsInit ==
    /\ \E b \in PayerBalances : lamports = InitialLamports(b)
    /\ token = InitialTokens
    /\ record = NoRecord
    /\ last = [op |-> "None", result |-> "Ok"]

FundsNext == OrderInitialize \/ Deposit \/ Exchange \/ ExecutePayment

FundsSpec == FundsInit /\ [][FundsNext]_vars

----------------------------------------------------------------------------
(* Well-formed invocations, used to state the claims *)

Succeeded(op) == last.op = op /\ last.result = "Ok"

----------------------------------------------------------------------------
(* C1 *)

\* C1: after a successful Terminate the sale-record account has zero balance,
\* and an Initialize by A with valid accounts (A holding the rent of the
\* accounts to create) is accepted again; no Initialize at all fails with
\* AlreadyCreatedPDAAccount in that state.
C1_Lifecycle ==
    Succeeded("Terminate") =>
        /\ lamports[ProgramPda] = 0
        /\ lamports[WalletA] >= RecordRent + AtaRent =>
              initialize_result(SaleAccounts(WalletA), SignedBy({WalletA})) = "Ok"
        /\ \A a \in InitializeAccounts : \A m \in InitializeMetas(a) :
              initialize_result(a, m) # "AlreadyCreatedPDAAccount"

\* a Terminate by A has succeeded on a sale that A had initialized
C1_Witness ==
    /\ Succeeded("Terminate")
    /\ last.accounts.initializer_account = WalletA
    /\ lamports[ProgramPda] = 0
    /\ lamports[WalletA] >= RecordRent + AtaRent

----------------------------------------------------------------------------
(* C2 *)

\* the changes of a successful Exchange other than the payer's native balance
C2_Transfers ==
    LET a == last'.accounts
        q == ClashAmountFinal(last'.amount, MintData[a.clash_token_account].decimals)
        before == IF lamports[a.to_token_account] = 0 THEN 0
                  ELSE token[a.to_token_account].amount
    IN  /\ a.to_sol_account = CLASH_SOL_WALLET
        /\ lamports'[CLASH_SOL_WALLET] = lamports[CLASH_SOL_WALLET] + last'.amount
        /\ token'[a.to_token_account].owner = a.from_sol_account
        /\ token'[a.to_token_account].amount = before + q
        /\ token'[a.from_token_account].amount = token[a.from_token_account].amount - q
        /\ q > 0

ExchangeStep == last'.op = "Exchange" /\ last'.result = "Ok"

\* C2 as stated: every successful Exchange debits the payer by exactly the
\* offered amount, credits the treasury by it, and moves the computed token
\* quantity from custody to the payer, whether the destination token account
\* existed or was created by the instruction.
C2_Original ==
    [][ExchangeStep =>
          /\ lamports'[last'.accounts.from_sol_account]
                = lamports[last'.accounts.from_sol_account] - last'.amount
          /\ C2_Transfers]_vars

\* C2 amended: the payer is debited by exactly the offered amount when the
\* destination token account existed, and by the offered amount plus the rent
\* of the new token account when the instruction created it; the treasury and
\* the two token balances change as stated in both cases.
C2_Amended ==
    [][ExchangeStep =>
          /\ lamports'[last'.accounts.from_sol_account]
                = lamports[last'.accounts.from_sol_account] - last'.amount
                     - (IF lamports[last'.accounts.to_token_account] = 0 THEN AtaRent ELSE 0)
          /\ C2_Transfers]_vars

\* an Exchange has succeeded that created the payer's token account
C2_Witness ==
    /\ Succeeded("Exchange")
    /\ last.created
    /\ token[last.accounts.to_token_account].amount > 0

\* an Exchange has succeeded into a token account that already existed
C2_WitnessExisting ==
    /\ Succeeded("Exchange")
    /\ ~last.created

----------------------------------------------------------------------------
(* C3 *)

\* the ExecutePayment inputs the claim ranges over
C3_Inputs ==
    {<<a, m, n>> \in PaymentAccounts \X
                     Metas({WalletB, CLASH_PAYMENT_AUTHORITY}, {TokenB}) \X PayAmounts : TRUE}

\* the checks evaluated before the trusted signer's signature pass
C3_BeforeSigner(a, m) == is_writable(a.payer_token_account, m)

\* the checks evaluated before the trusted signer's identity pass
C3_BeforeIdentity(a, m) ==
    /\ C3_BeforeSigner(a, m)
    /\ is_signer(a.trusted_signer_authority, m)
    /\ is_writable(a.program_token_account, m)
    /\ a.program_account = ProgramId
    /\ a.clash_token_account = CLASH_TOKEN_ID
    /\ a.payer_token_account # a.program_token_account

C3_Rejects ==
    \A i \in C3_Inputs :
        LET a == i[1]
            m == i[2]
            r == payment_result(a, m, i[3])
        IN  /\ r = "Ok" =>
                 /\ is_signer(a.trusted_signer_authority, m)
                 /\ a.trusted_signer_authority = CLASH_PAYMENT_AUTHORITY
            /\ C3_BeforeSigner(a, m) /\ ~is_signer(a.trusted_signer_authority, m) =>
                 r = "MissingRequiredSignature"
            /\ C3_BeforeIdentity(a, m)
                  /\ a.trusted_signer_authority # CLASH_PAYMENT_AUTHORITY =>
                 r = "InvalidClashTrustedAuthority"

\* C3: ExecutePayment succeeds, and so moves tokens, only if the trusted
\* signer signed and is the configured payment authority; when the earlier
\* checks pass, a missing signature gives MissingRequiredSignature and a signed
\* but different identity gives InvalidClashTrustedAuthority; a failed
\* ExecutePayment moves no token.
C3_TrustedSigner ==
    /\ []C3_Rejects
    /\ [][last'.op = "ExecutePayment" =>
             /\ last'.result # "Ok" => token' = token
             /\ token' # token =>
                  /\ CLASH_PAYMENT_AUTHORITY \in last'.meta.signers
                  /\ last'.accounts.trusted_signer_authority = CLASH_PAYMENT_AUTHORITY]_vars

\* an ExecutePayment signed by someone other than the payment authority was
\* rejected, in a state where the custody account holds tokens to pay out
C3_Witness ==
    /\ last.op = "ExecutePayment"
    /\ last.result = "InvalidClashTrustedAuthority"
    /\ token[Custody].amount > 0

----------------------------------------------------------------------------
(* C4 *)

\* C4: a successful Initialize implies that the descriptor account supplied
\* is CLASH_TOKEN_ID and that the initializer is the minting authority of
\* CLASH_TOKEN_ID.
C4_Original ==
    Succeeded("Initialize") =>
        /\ last.accounts.clash_token_account = CLASH_TOKEN_ID
        /\ MintData[CLASH_TOKEN_ID].mint_authority = last.accounts.initializer_account

----------------------------------------------------------------------------
(* C5 *)

LedgerUnchanged == UNCHANGED <<lamports, token, record>>

\* the checks of Initialize evaluated before the sale-record balance pass
C5_Before(a, m) ==
    /\ is_signer(a.initializer_account, m)
    /\ is_writable(a.clash_token_account, m)
    /\ is_writable(a.program_pda_account, m)
    /\ is_writable(a.program_token_account, m)
    /\ IsTokenAccount(a.initializer_token_account)
    /\ token[a.initializer_token_account].owner = a.initializer_account
    /\ token[a.initializer_token_account].mint = CLASH_TOKEN_ID
    /\ a.program_pda_account = ProgramPda

C5_Rejects ==
    lamports[ProgramPda] # 0 =>
        \A a \in InitializeAccounts : \A m \in InitializeMetas(a) :
            /\ a.program_pda_account = ProgramPda => initialize_result(a, m) # "Ok"
            /\ C5_Before(a, m) => initialize_result(a, m) = "AlreadyCreatedPDAAccount"

\* C5: while a sale is active, an Initialize against the derived sale-record
\* address whose earlier checks pass fails with AlreadyCreatedPDAAccount, none
\* succeeds, and the failed call changes no balance and leaves the stored
\* record as it was.
C5_SecondInitialize ==
    /\ []C5_Rejects
    /\ [][last'.op = "Initialize" /\ last'.result = "AlreadyCreatedPDAAccount" =>
             LedgerUnchanged /\ record # NoRecord]_vars

\* a second Initialize was rejected while the first sale is active
C5_Witness ==
    /\ last.op = "Initialize"
    /\ last.result = "AlreadyCreatedPDAAccount"
    /\ record.initializer = WalletA
    /\ lamports[ProgramPda] # 0

----------------------------------------------------------------------------
(* C6 *)

\* the checks of Terminate evaluated before the stored record is compared pass
C6_Before(a, m) ==
    /\ is_signer(a.initializer_account, m)
    /\ is_writable(a.clash_token_account, m)
    /\ is_writable(a.program_pda_account, m)
    /\ is_writable(a.program_token_account, m)
    /\ a.clash_token_account = CLASH_TOKEN_ID
    /\ a.program_pda_account = ProgramPda
    /\ lamports[ProgramPda] # 0

C6_Rejects ==
    \A a \in TerminateAccounts : \A m \in TerminateMetas(a) :
        LET r == terminate_result(a, m)
        IN  /\ r = "Ok" =>
                 /\ is_signer(a.initializer_account, m)
                 /\ a.initializer_account = record.initializer
                 /\ a.initializer_token_account = record.initializer_ata
            /\ C6_Before(a, m) /\ a.initializer_account # record.initializer =>
                 r = "InitializerAccountMismatch"
            /\ C6_Before(a, m) /\ a.initializer_account = record.initializer
                  /\ a.initializer_token_account # record.initializer_ata =>
                 r = "InitializerAssociatedAccountMismatch"

\* C6: Terminate succeeds only if the first account signed, is the stored
\* initializer, and the token account supplied is the stored
\* initializer_token_account; when the earlier checks pass, another signer
\* gives InitializerAccountMismatch and another token account gives
\* InitializerAssociatedAccountMismatch; a failed Terminate changes no balance
\* and leaves the Sale Record as it was.
C6_TerminateAuthority ==
    /\ []C6_Rejects
    /\ [][last'.op = "Terminate" /\ last'.result # "Ok" => LedgerUnchanged]_vars

\* a Terminate by someone other than the stored initializer was rejected
C6_Witness ==
    /\ last.op = "Terminate"
    /\ last.result = "InitializerAccountMismatch"
    /\ record.initializer = WalletA

----------------------------------------------------------------------------
(* C7 *)

\* the checks of Terminate evaluated before the sale-record balance pass
C7_Before(a, m) ==
    /\ is_signer(a.initializer_account, m)
    /\ is_writable(a.clash_token_account, m)
    /\ is_writable(a.program_pda_account, m)
    /\ is_writable(a.program_token_account, m)
    /\ a.clash_token_account = CLASH_TOKEN_ID
    /\ a.program_pda_account = ProgramPda

C7_Rejects ==
    lamports[ProgramPda] = 0 =>
        \A a \in TerminateAccounts : \A m \in TerminateMetas(a) :
            C7_Before(a, m) => terminate_result(a, m) = "InvalidTerminateUninitializedICO"

\* C7: while the derived sale-record account has zero balance, a Terminate
\* with that address whose earlier checks pass fails with
\* InvalidTerminateUninitializedICO, and the failed call changes no balance.
C7_TerminateUninitialized ==
    /\ []C7_Rejects
    /\ [][last'.op = "Terminate" /\ last'.result = "InvalidTerminateUninitializedICO" =>
             LedgerUnchanged /\ lamports[ProgramPda] = 0]_vars

\* a Terminate was rejected after an earlier sale had been terminated (tokens
\* were sold, and the sale record is gone)
C7_Witness ==
    /\ last.op = "Terminate"
    /\ last.result = "InvalidTerminateUninitializedICO"
    /\ token[TokenB].amount > 0
    /\ lamports[ProgramPda] = 0

----------------------------------------------------------------------------
(* C8 *)

\* C8: after every successful Terminate the custody token account of the
\* derived authority is closed and holds no tokens, the initializer's token
\* account has grown by the custody token balance held before, the
\* sale-record balance is zero, and the initializer's native balance has grown
\* by the sale-record lamports plus the custody account's rent lamports.
C8_Original ==
    [][last'.op = "Terminate" /\ last'.result = "Ok" =>
          LET a == last'.accounts
          IN  /\ lamports'[Custody] = 0
              /\ token'[Custody].amount = 0
              /\ token'[a.initializer_token_account].amount
                    = token[a.initializer_token_account].amount + token[Custody].amount
              /\ lamports'[ProgramPda] = 0
              /\ lamports'[a.initializer_account]
                    = lamports[a.initializer_account] + lamports[ProgramPda]
                         + lamports[Custody]]_vars

----------------------------------------------------------------------------
(* C9 *)

\* C9: right after a successful Initialize the Sale Record holds the
\* initializer and the initializer's token account of that call, and an
\* existing Sale Record is changed by no step other than a successful
\* Terminate.
C9_RecordImmutable ==
    /\ [](Succeeded("Initialize") =>
             /\ record.initializer = last.accounts.initializer_account
             /\ record.initializer_ata = last.accounts.initializer_token_account)
    /\ [][record # NoRecord /\ ~(last'.op = "Terminate" /\ last'.result = "Ok") =>
             record' = record]_vars

\* the record written by A is still in place after a later successful
\* Exchange
C9_Witness ==
    /\ Succeeded("Exchange")
    /\ record = [initializer |-> WalletA, initializer_ata |-> TokenA]

----------------------------------------------------------------------------
(* C10 *)

\* the Terminate of the stored initializer, with the stored token account
StoredTerminate ==
    [initializer_account |-> record.initializer,
     initializer_token_account |-> record.initializer_ata,
     clash_token_account |-> CLASH_TOKEN_ID,
     program_pda_account |-> ProgramPda,
     program_token_account |-> Custody]

C10_Active ==
    /\ lamports[ProgramPda] # 0 <=> record # NoRecord
    /\ lamports[ProgramPda] # 0 =>
          /\ initialize_result(SaleAccounts(WalletA), SignedBy({WalletA}))
                = "AlreadyCreatedPDAAccount"
          /\ terminate_result(StoredTerminate, SignedBy({record.initializer})) = "Ok"

\* C10: the derived sale-record account has a non-zero balance exactly while
\* it holds a Sale Record; its balance becomes non-zero only by a successful
\* Initialize and zero only by a successful Terminate; and while it is
\* non-zero, Initialize fails with AlreadyCreatedPDAAccount and the Terminate
\* of the stored initializer succeeds.
C10_ActiveIffFunded ==
    /\ []C10_Active
    /\ [][lamports'[ProgramPda] # lamports[ProgramPda] =>
             \/ /\ last'.op = "Initialize" /\ last'.result = "Ok"
                /\ lamports[ProgramPda] = 0 /\ lamports'[ProgramPda] # 0
             \/ /\ last'.op = "Terminate" /\ last'.result = "Ok"
                /\ lamports[ProgramPda] # 0 /\ lamports'[ProgramPda] = 0]_vars

\* a sale is active after tokens have been paid out of custody
C10_Witness ==
    /\ lamports[ProgramPda] # 0
    /\ record # NoRecord
    /\ Succeeded("ExecutePayment")

----------------------------------------------------------------------------
(* C11 *)

\* offers around the two price bounds: at SOL_USD the floor MIN_USD_PRICE is
\* the value of 1000000 lamports and the ceiling MAX_USD_PRICE that of
\* 100000000 lamports
C11_Offers ==
    {0, 999999, 1000000, 1000001, 50000000, 99999999, 100000000, 100000001, 200000000}

C11_Bounds ==
    \A a \in ExchangeAccounts : \A m \in ExchangeMetas(a) :
        exchange_validation(a, m) = "Ok" =>
            \A n \in C11_Offers :
                LET r == exchange_checks(a, m, n)
                IN  /\ n < 1000000 => r = "InvalidOfferTooFew"
                    /\ n > 100000000 => r = "InvalidOfferTooMuch"
                    /\ n >= 1000000 => r # "InvalidOfferTooFew"
                    /\ n <= 100000000 => r # "InvalidOfferTooMuch"

\* C11: an Exchange that passes the account validation chain fails with
\* InvalidOfferTooFew when the USD value of the offer is below the floor and
\* with InvalidOfferTooMuch when it is above the ceiling; an offer worth
\* exactly the floor or exactly the ceiling is rejected by neither check; and
\* an Exchange that returned one of the two errors changed nothing.
C11_PriceBounds ==
    /\ []C11_Bounds
    /\ [][last'.op = "Exchange"
             /\ last'.result \in {"InvalidOfferTooFew", "InvalidOfferTooMuch"} =>
             LedgerUnchanged]_vars

\* an offer above the ceiling was rejected while the custody account held
\* tokens for sale
C11_Witness ==
    /\ last.op = "Exchange"
    /\ last.result = "InvalidOfferTooMuch"
    /\ token[Custody].amount > 0
    /\ exchange_validation(
          [from_sol_account |-> WalletB, to_token_account |-> TokenB,
           to_sol_account |-> CLASH_SOL_WALLET, from_token_account |-> Custody,
           clash_token_account |-> CLASH_TOKEN_ID, program_account |-> ProgramId,
           program_pda_account |-> ProgramPda], SignedBy({WalletB})) = "Ok"

----------------------------------------------------------------------------
(* C12 *)

PaymentStep == last'.op = "ExecutePayment" /\ last'.result = "Ok"

\* C12 as stated: no successful ExecutePayment changes the native balance of
\* any account, also when it creates the payer's token account.
C12_Original == [][PaymentStep => lamports' = lamports]_vars

\* C12 amended: a successful ExecutePayment into an existing token account
\* changes no native balance; one that creates the payer's token account moves
\* the rent of the new account from the payer, who must have signed, to the
\* new account and changes no other native balance.
C12_Amended ==
    [][PaymentStep =>
          LET a == last'.accounts
          IN  IF lamports[a.payer_token_account] # 0
              THEN lamports' = lamports
              ELSE /\ is_signer(a.payer_account, last'.meta)
                   /\ lamports'[a.payer_account] = lamports[a.payer_account] - AtaRent
                   /\ lamports'[a.payer_token_account] = AtaRent
                   /\ \A k \in Keys \ {a.payer_account, a.payer_token_account} :
                         lamports'[k] = lamports[k]]_vars

\* an ExecutePayment has succeeded that created the payer's token account
C12_Witness ==
    /\ Succeeded("ExecutePayment")
    /\ last.created
    /\ lamports[last.accounts.payer_token_account] = AtaRent

\* an ExecutePayment has succeeded into a token account that existed
C12_WitnessExisting ==
    /\ Succeeded("ExecutePayment")
    /\ ~last.created

----------------------------------------------------------------------------
(* C13 *)

\* payload amounts around the custody balance `bal`
C13_Amounts(bal) == {0, 1, bal, bal + 1, bal + 20}

C13_Checks ==
    \A a \in PaymentAccounts : \A m \in PaymentMetas(a) :
        payment_validation(a, m) = "Ok" =>
            LET bal == token[a.program_token_account].amount
                exists == lamports[a.payer_token_account] # 0
                canCreate == /\ is_signer(a.payer_account, m)
                             /\ lamports[a.payer_account] >= AtaRent
            IN  \A n \in C13_Amounts(bal) :
                    LET r == payment_result(a, m, n)
                    IN  /\ n = 0 => r = "InvalidClashTokenAmount"
                        /\ n > bal => r = "InsuficientClashToken"
                        /\ n > 0 /\ n <= bal =>
                              /\ payment_checks(a, m, n) = "Ok"
                              /\ exists \/ canCreate => r = "Ok"

\* C13: when the validation chain of ExecutePayment passes, a payload amount
\* of 0 fails with InvalidClashTokenAmount and one above the custody token
\* balance fails with InsuficientClashToken; any other amount passes every
\* check, and every successful ExecutePayment moves exactly the payload amount
\* from the custody token account to the payer's token account.
C13_PaymentAmount ==
    /\ []C13_Checks
    /\ [][PaymentStep =>
             LET a == last'.accounts
                 n == last'.amount
                 before == IF lamports[a.payer_token_account] = 0 THEN 0
                           ELSE token[a.payer_token_account].amount
             IN  /\ n > 0
                 /\ n <= token[a.program_token_account].amount
                 /\ token'[a.program_token_account].amount
                       = token[a.program_token_account].amount - n
                 /\ token'[a.payer_token_account].amount = before + n
                 /\ \A k \in TokenKeys \ {a.program_token_account, a.payer_token_account} :
                       token'[k] = token[k]]_vars

\* a payment of 20 token units has been made out of a custody account that
\* held more than that
C13_Witness ==
    /\ Succeeded("ExecutePayment")
    /\ last.amount = 20
    /\ token[last.accounts.program_token_account].amount > 0
    /\ token[last.accounts.payer_token_account].amount >= 20

----------------------------------------------------------------------------
(* C14 *)

C14_Decode ==
    \A d \in UndecodableData :
        unpack(d).result = IF Len(d) = 0 THEN "InvalidInstructionDataEmpty"
                           ELSE "InvalidProgramInstruction"

\* C14: empty instruction data decodes to InvalidInstructionDataEmpty and
\* data whose first byte is not 0, 1, 2 or 3 decodes to
\* InvalidProgramInstruction whatever bytes follow; Processor::process on such
\* data returns that error with no handler run: the outcome is that of the
\* decoding, and no balance and no record changes.
C14_DecodeErrors ==
    /\ []C14_Decode
    /\ [][\A i \in ProcessInputs :
             (Len(i[1]) = 0 \/ Head(i[1]) \notin {0, 1, 2, 3}) /\ Process(i[1], i[2], i[3]) =>
                 /\ last'.op = "Process"
                 /\ last'.result = IF Len(i[1]) = 0 THEN "InvalidInstructionDataEmpty"
                                   ELSE "InvalidProgramInstruction"
                 /\ LedgerUnchanged]_vars

\* data with an unknown tag was rejected while a sale was active
C14_Witness ==
    /\ last.op = "Process"
    /\ last.result = "InvalidProgramInstruction"
    /\ record # NoRecord

----------------------------------------------------------------------------
(* C15 *)

MaxU64 == <<65535, 65535, 65535, 65535>>

\* C15: decoding tag 1 (resp. tag 2) followed by the 8-byte little-endian
\* encoding of a u64 value v gives ExchangeClashToken (resp.
\* ExecuteClashPayment) with amount v, for every sampled v, 0 and the maximum
\* included.
C15_RoundTrip ==
    last.op = "Unpack" =>
        \A v \in U64Samples :
            /\ last.data = <<1>> \o to_le_bytes(v) =>
                  last.decoded = Decoded("ExchangeClashToken", v)
            /\ last.data = <<2>> \o to_le_bytes(v) =>
                  last.decoded = Decoded("ExecuteClashPayment", v)

\* the encoding of the maximum value under tag 2 has been decoded
C15_Witness ==
    /\ last.op = "Unpack"
    /\ last.data = <<2>> \o to_le_bytes(MaxU64)
    /\ last.result = "Ok"
    /\ last.decoded.amount = MaxU64

\* the encoding of a value with distinct bytes under tag 1 has been decoded
C15_WitnessMixed ==
    /\ last.op = "Unpack"
    /\ last.data = <<1, 0, 1, 255, 0, 1, 0, 255, 255>>
    /\ last.decoded.amount = <<256, 255, 1, 65535>>

----------------------------------------------------------------------------
(* C16 *)

\* the errors returned by the handlers' own validation and business-rule
\* checks
CheckErrors ==
    {"MissingRequiredSignature", "InvalidArgument", "UninitializedAccount",
     "IllegalOwner", "IncorrectProgramId", "InsufficientFunds", "InvalidAccountData",
     "InvalidAddressProgramPDA", "AlreadyCreatedPDAAccount", "InitializerNotMintAuthority",
     "InvalidClashTokenId", "CannotTransferSameAccount",
     "CannotTransferSameAssociatedAccount", "InvalidClashTokenDestinationWallet",
     "InvalidSourceAssociatedAccountOwner", "InvalidProgramAssociatedPDAOwner",
     "InvalidOfferTooFew", "InvalidOfferTooMuch", "InvalidClashTokenAmount",
     "InsuficientClashToken", "InvalidClashTrustedAuthority",
     "InvalidTerminateUninitializedICO", "InitializerAccountMismatch",
     "InitializerAssociatedAccountMismatch"}

C16_NothingIssued ==
    /\ \A a \in InitializeAccounts : \A m \in InitializeMetas(a) :
          initialize_result(a, m) \in CheckErrors => initialize_issued(a, m) = <<>>
    /\ \A a \in ExchangeAccounts : \A m \in ExchangeMetas(a) : \A n \in Offers :
          exchange_result(a, m, n) \in CheckErrors => exchange_issued(a, m, n) = <<>>
    /\ \A a \in PaymentAccounts : \A m \in PaymentMetas(a) : \A n \in PayAmounts :
          payment_result(a, m, n) \in CheckErrors => payment_issued(a, m, n) = <<>>
    /\ \A a \in TerminateAccounts : \A m \in TerminateMetas(a) :
          terminate_result(a, m) \in CheckErrors => terminate_issued(a, m) = <<>>

\* C16: in each of the four handlers an instruction that fails with a
\* validation or business-rule error has issued no effect (no account
\* creation, transfer, close or lamport write) when the error is returned, and
\* the failed step leaves every native balance, every token balance and the
\* Sale Record as they were.
C16_ChecksBeforeEffects ==
    /\ []C16_NothingIssued
    /\ [][last'.op \in {"Initialize", "Exchange", "ExecutePayment", "Terminate"}
             /\ last'.result \in CheckErrors => LedgerUnchanged]_vars

\* an Exchange was rejected by the last of its checks, the custody balance,
\* while a sale was active and the payer's token account did not exist yet
C16_Witness ==
    /\ last.op = "Exchange"
    /\ last.result = "InsuficientClashToken"
    /\ record # NoRecord
    /\ lamports[TokenB] = 0

----------------------------------------------------------------------------
(* C17 *)

\* the signer and writable requirements of the last validate_account call
\* were met
RequirementsMet ==
    /\ last.signer => is_signer(last.key, last.meta)
    /\ last.writable => is_writable(last.key, last.meta)

\* C17: validate_account with the funded requirement, on an account that
\* meets the signer and writable requirements, fails with UninitializedAccount
\* when the account's balance is zero and does not fail with it when the
\* balance is non-zero.
C17_Original ==
    last.op = "validate_account" /\ last.initialized /\ RequirementsMet =>
        /\ lamports[last.key] = 0 => last.result = "UninitializedAccount"
        /\ lamports[last.key] # 0 => last.result # "UninitializedAccount"

----------------------------------------------------------------------------
(* C18 *)

\* C18: validate_account returns the first failure in the order signer,
\* writable, funded: MissingRequiredSignature if the signer requirement is
\* violated, else InvalidArgument if the writable requirement is violated,
\* else UninitializedAccount if the funded requirement is violated, else
\* success; a requirement whose flag is false causes no failure.
C18_Original ==
    last.op = "validate_account" =>
        last.result =
            IF last.signer /\ ~is_signer(last.key, last.meta)
            THEN "MissingRequiredSignature"
            ELSE IF last.writable /\ ~is_writable(last.key, last.meta)
            THEN "InvalidArgument"
            ELSE IF last.initialized /\ lamports[last.key] = 0
            THEN "UninitializedAccount"
            ELSE "Ok"

----------------------------------------------------------------------------
(* C19 *)

\* C19: validate_token_account fails with IllegalOwner when the recorded
\* owner differs from the expected owner, whether or not the mint differs
\* too; fails with InvalidArgument when the owner matches and the recorded
\* mint differs from the expected mint; and succeeds exactly when both match.
C19_TokenAccount ==
    last.op = "validate_token_account" =>
        /\ last.acc.owner # last.owner => last.result = "IllegalOwner"
        /\ last.acc.owner = last.owner /\ last.acc.mint # last.mint =>
              last.result = "InvalidArgument"
        /\ last.result = "Ok" <=>
              last.acc.owner = last.owner /\ last.acc.mint = last.mint

\* a token account with another owner and another mint was rejected
C19_Witness ==
    /\ last.op = "validate_token_account"
    /\ last.acc.owner # last.owner
    /\ last.acc.mint # last.mint
    /\ last.result = "IllegalOwner"

----------------------------------------------------------------------------
(* C20 *)

\* the checks of Initialize evaluated before the initializer's token account
\* is compared pass
C20_Before(a, m) ==
    /\ is_signer(a.initializer_account, m)
    /\ is_writable(a.clash_token_account, m)
    /\ is_writable(a.program_pda_account, m)
    /\ is_writable(a.program_token_account, m)
    /\ IsTokenAccount(a.initializer_token_account)

\* C20: an Initialize whose earlier checks pass and whose initializer token
\* account is not owned by the initializer, or is not of the configured
\* token, fails with InvalidInitializerATAAddress, whatever the sale-record
\* address, the sale-record balance and the mint authority are.
C20_Original ==
    \A a \in InitializeAccounts : \A m \in InitializeMetas(a) :
        C20_Before(a, m)
           /\ (\/ token[a.initializer_token_account].owner # a.initializer_account
               \/ token[a.initializer_token_account].mint # CLASH_TOKEN_ID) =>
            initialize_result(a, m) = "InvalidInitializerATAAddress"

----------------------------------------------------------------------------
(* C21 *)

\* the error of the first violated check of a list of <<violated, error>>
RECURSIVE FirstViolated(_)
FirstViolated(checks) ==
    IF checks = <<>> THEN "Ok"
    ELSE IF Head(checks)[1] THEN Head(checks)[2]
    ELSE FirstViolated(Tail(checks))

\* the signer and writable requirements of Exchange are met
C21_Structural(a, m) ==
    /\ is_signer(a.from_sol_account, m)
    /\ \A k \in {a.from_sol_account, a.to_token_account, a.to_sol_account,
                 a.from_token_account} : is_writable(k, m)

\* the account checks of Exchange in the stated order
C21_Expected(a) ==
    FirstViolated(<<
        <<a.program_account # ProgramId, "IncorrectProgramId">>,
        <<a.clash_token_account # CLASH_TOKEN_ID, "InvalidClashTokenId">>,
        <<a.from_sol_account = a.to_sol_account, "CannotTransferSameAccount">>,
        <<a.from_token_account = a.to_token_account, "CannotTransferSameAssociatedAccount">>,
        <<a.to_sol_account # CLASH_SOL_WALLET, "InvalidClashTokenDestinationWallet">>,
        <<lamports[a.to_token_account] # 0
             /\ token[a.to_token_account].owner # a.from_sol_account,
          "InvalidSourceAssociatedAccountOwner">>,
        <<a.program_pda_account # ProgramPda, "InvalidAddressProgramPDA">>,
        <<token[a.from_token_account].owner # ProgramPda,
          "InvalidProgramAssociatedPDAOwner">> >>)

----------------------------------------------------------------------------
(* C22 *)

\* the amount checks of Exchange in the stated order
C22_Expected(a, n) ==
    LET quantity == ClashAmountFinal(n, MintData[CLASH_TOKEN_ID].decimals)
    IN  FirstViolated(<<
            <<RatLess(UsdAmount(n), MIN_USD_PRICE), "InvalidOfferTooFew">>,
            <<RatLess(MAX_USD_PRICE, UsdAmount(n)), "InvalidOfferTooMuch">>,
            <<quantity = 0, "InvalidClashTokenAmount">>,
            <<lamports[a.from_sol_account] <= n, "InsufficientFunds">>,
            <<token[a.from_token_account].amount < quantity,
              "InsuficientClashToken">> >>)

\* C22: on every Exchange account list and offer: when the account
\* validation chain rejects the list, Exchange returns that error whatever
\* the offer; otherwise it returns the error of the earliest violated amount
\* check in the order USD floor, USD ceiling, zero token quantity, payer's
\* native balance, custody token balance.
C22_AmountOrder ==
    \A a \in ExchangeWide : \A m \in ExchangeMetas(a) : \A n \in OrderOffers :
        LET v == exchange_validation(a, m)
        IN  exchange_checks(a, m, n) = IF v # "Ok" THEN v ELSE C22_Expected(a, n)

\* an offer inside the USD bounds was rejected for buying no whole token, in
\* a state where a valid list has a payer holding no more than that offer and
\* the custody account is empty
C22_Witness ==
    /\ last.op = "Exchange"
    /\ last.result = "InvalidClashTokenAmount"
    /\ lamports[Custody] # 0
    /\ token[Custody].amount = 0
    /\ lamports[CLASH_PAYMENT_AUTHORITY] <= 1000000
    /\ \E a \in ExchangeWide : \E m \in ExchangeMetas(a) :
          /\ a.from_sol_account = CLASH_PAYMENT_AUTHORITY
          /\ exchange_validation(a, m) = "Ok"

----------------------------------------------------------------------------
(* C23 *)

\* an Exchange whose payer holds no more than the offer does not succeed, and
\* is rejected with InsufficientFunds when every earlier check passes
C23_Guard ==
    \A a \in ExchangeAccounts : \A m \in ExchangeMetas(a) : \A n \in Offers :
        lamports[a.from_sol_account] <= n =>
            /\ exchange_result(a, m, n) # "Ok"
            /\ C22_Expected(a, n) = "InsufficientFunds" /\ exchange_validation(a, m) = "Ok"
                  => exchange_result(a, m, n) = "InsufficientFunds"

\* C23: an Exchange whose payer's native balance is less than or equal to
\* the offered amount fails with InsufficientFunds, and after every successful
\* Exchange the payer's native balance is strictly positive.
C23_Original ==
    /\ C23_Guard
    /\ last.op = "Exchange" /\ last.result = "Ok"
          => lamports[last.accounts.from_sol_account] > 0

----------------------------------------------------------------------------
(* C24 *)

\* the signer and writable requirements of ExecutePayment are met
C24_Structural(a, m) ==
    /\ is_signer(a.trusted_signer_authority, m)
    /\ is_writable(a.payer_token_account, m)
    /\ is_writable(a.program_token_account, m)

\* the checks of ExecutePayment in the stated order
C24_Expected(a, n) ==
    FirstViolated(<<
        <<a.program_account # ProgramId, "IncorrectProgramId">>,
        <<a.clash_token_account # CLASH_TOKEN_ID, "InvalidClashTokenId">>,
        <<a.payer_token_account = a.program_token_account,
          "CannotTransferSameAssociatedAccount">>,
        <<a.trusted_signer_authority # CLASH_PAYMENT_AUTHORITY,
          "InvalidClashTrustedAuthority">>,
        <<lamports[a.payer_token_account] # 0
             /\ token[a.payer_token_account].owner # a.payer_account,
          "InvalidClashTokenDestinationWallet">>,
        <<a.program_pda_account # ProgramPda, "InvalidAddressProgramPDA">>,
        <<token[a.program_token_account].owner # ProgramPda,
          "InvalidProgramAssociatedPDAOwner">>,
        <<n = 0, "InvalidClashTokenAmount">>,
        <<token[a.program_token_account].amount < n, "InsuficientClashToken">> >>)

----------------------------------------------------------------------------
(* C25 *)

\* C25: instruction data with tag 1 or tag 2 decodes successfully exactly when
\* 8 bytes follow the tag, and then to the variant of the tag; with fewer or
\* more than 8 payload bytes the decoding returns BorshIoError and produces
\* no instruction variant.
C25_PayloadLength ==
    last.op = "Unpack" /\ Len(last.data) > 0 /\ Head(last.data) \in {1, 2} =>
        /\ last.result = "Ok" <=> Len(last.data) = 1 + 8
        /\ last.result = "Ok" =>
              last.decoded.instruction = IF Head(last.data) = 1
                                         THEN "ExchangeClashToken"
                                         ELSE "ExecuteClashPayment"
        /\ last.result # "Ok" =>
              /\ last.result = "BorshIoError"
              /\ last.decoded.instruction = "None"

\* tag 1 followed by 9 payload bytes has been rejected
C25_Witness ==
    /\ last.op = "Unpack"
    /\ Len(last.data) = 1 + 9
    /\ Head(last.data) = 1
    /\ last.result = "BorshIoError"

\* tag 2 followed by 7 payload bytes has been rejected
C25_WitnessShort ==
    /\ last.op = "Unpack"
    /\ Len(last.data) = 1 + 7
    /\ Head(last.data) = 2
    /\ last.result = "BorshIoError"

----------------------------------------------------------------------------
(* C26 *)

\* C26: from a state where the sale-record account has zero balance (before
\* the first Initialize or after a Terminate), no Exchange and no
\* ExecutePayment succeeds.
C26_Original ==
    [][lamports[ProgramPda] = 0 =>
          ~(last'.op \in {"Exchange", "ExecutePayment"} /\ last'.result = "Ok")]_vars

----------------------------------------------------------------------------
(* C27 *)

\* the sum of f over the keys of S
RECURSIVE SumOver(_, _)
SumOver(f, S) ==
    IF S = {} THEN 0
    ELSE LET k == CHOOSE x \in S : TRUE
         IN  f[k] + SumOver(f, S \ {k})

C27_TokenTotal == SumOver([k \in TokenKeys |-> token[k].amount], TokenKeys)

C27_NativeTotal == SumOver(lamports, Keys)

\* C27: along every sequence of the four instructions and deposits, no token
\* balance is negative, the sum of all token balances and the sum of all
\* native balances keep their initial values, and every successful Exchange
\* or ExecutePayment lowers the balance of the custody account it draws on by
\* exactly the quantity it credits to the payer's token account.
C27_Conservation ==
    /\ [](/\ \A k \in TokenKeys : token[k].amount >= 0
          /\ C27_TokenTotal = 20 * InitialLots
          /\ C27_NativeTotal = SumOver(InitialLamports(301000000), Keys))
    /\ [][last'.op \in {"Exchange", "ExecutePayment"} /\ last'.result = "Ok" =>
             LET a == last'.accounts
                 source == IF last'.op = "Exchange" THEN a.from_token_account
                           ELSE a.program_token_account
                 destination == IF last'.op = "Exchange" THEN a.to_token_account
                                ELSE a.payer_token_account
             IN  /\ token'[destination].amount > token[destination].amount
                 /\ token[source].amount - token'[source].amount
                       = token'[destination].amount - token[destination].amount]_vars

\* a second withdrawal from the same custody account has succeeded and left
\* it empty: an ExecutePayment after an Exchange, or the converse
C27_Witness ==
    /\ last.op \in {"Exchange", "ExecutePayment"}
    /\ last.result = "Ok"
    /\ token[Custody].amount = 0
    /\ lamports[Custody] # 0
    /\ token[TokenB].amount = 40

============================================================================
